---- MODULE Spec2Model ----
(***************************************************************************)
(* Model of blender_material_creator.py: the "Material Creator from Files" *)
(* add-on.  Strings are sequences of one-character strings, so that        *)
(* str.strip, os.path.normpath and os.path.basename are computed and not   *)
(* assumed.  The host (bpy) is modelled by the collections the add-on      *)
(* reads and writes: bpy.data.materials, bpy.data.images, the scene's      *)
(* objects, the operator registry and the add-on's two scene properties.   *)
(***************************************************************************)
EXTENDS Integers, Sequences, FiniteSets, TLC

VARIABLES
    registry,   \* host operator registry after register(): sequence of <<bl_idname, class>>
    props,      \* context.scene.material_creator: [input_file_path, path_file_path]
    fs,         \* the text files on disk: file name -> sequence of lines | Missing | Unreadable
    hostApi,    \* which asset-marking calls of the host work: "asset_mark" | "ops_only" | "none"
    materials,  \* bpy.data.materials, in creation order
    images,     \* bpy.data.images, in creation order
    objects,    \* bpy.context.scene.objects, in creation order
    last        \* what the last operator invocation did (report, return value, inputs)

vars == <<registry, props, fs, hostApi, materials, images, objects, last>>

----------------------------------------------------------------------------
(* Bounds of the model *)

\* most lines in either text file
MaxLines == 2
\* most materials in the scene when the plane layout is explored (SpecGrid)
MaxGridN == 9
\* cap on the scene's objects: Create Material Planes is not explored beyond it
MaxObjects == 12

----------------------------------------------------------------------------
(* Strings *)

\* a string is a sequence of one-character strings
Whitespace == {" "}
Quotes == {"\"", "'"}

RECURSIVE LStrip(_, _)
LStrip(s, cs) == IF s # <<>> /\ Head(s) \in cs THEN LStrip(Tail(s), cs) ELSE s

RECURSIVE RStrip(_, _)
RStrip(s, cs) ==
    IF s # <<>> /\ s[Len(s)] \in cs THEN RStrip(SubSeq(s, 1, Len(s) - 1), cs) ELSE s

\* Python str.strip(chars)
Strip(s, cs) == RStrip(LStrip(s, cs), cs)

\* str.split('/')
RECURSIVE SplitSlash(_, _, _)
SplitSlash(s, cur, acc) ==
    IF s = <<>> THEN Append(acc, cur)
    ELSE IF Head(s) = "/" THEN SplitSlash(Tail(s), <<>>, Append(acc, cur))
    ELSE SplitSlash(Tail(s), Append(cur, Head(s)), acc)

\* '/'.join(comps)
RECURSIVE JoinSlash(_)
JoinSlash(comps) ==
    IF comps = <<>> THEN <<>>
    ELSE IF Len(comps) = 1 THEN comps[1]
    ELSE comps[1] \o <<"/">> \o JoinSlash(Tail(comps))

\* the component loop of posixpath.normpath
RECURSIVE NormComps(_, _, _)
NormComps(comps, new, rooted) ==
    IF comps = <<>> THEN new
    ELSE LET c == Head(comps) IN
         IF c = <<>> \/ c = <<".">> THEN NormComps(Tail(comps), new, rooted)
         ELSE IF \/ c # <<".", ".">>
                 \/ (~rooted /\ new = <<>>)
                 \/ (new # <<>> /\ new[Len(new)] = <<".", ".">>)
              THEN NormComps(Tail(comps), Append(new, c), rooted)
         ELSE IF new # <<>>
              THEN NormComps(Tail(comps), SubSeq(new, 1, Len(new) - 1), rooted)
         ELSE NormComps(Tail(comps), new, rooted)

\* os.path.normpath (POSIX)
normpath(path) ==
    IF path = <<>> THEN <<".">>
    ELSE LET slashes == IF Head(path) # "/" THEN 0
                        ELSE IF Len(path) >= 2 /\ path[2] = "/"
                                /\ ~(Len(path) >= 3 /\ path[3] = "/") THEN 2
                        ELSE 1
             body == JoinSlash(NormComps(SplitSlash(path, <<>>, <<>>), <<>>, slashes > 0))
             full == [i \in 1..slashes |-> "/"] \o body
         IN  IF full = <<>> THEN <<".">> ELSE full

\* os.path.basename
basename(path) == LET comps == SplitSlash(path, <<>>, <<>>) IN comps[Len(comps)]

----------------------------------------------------------------------------
(* The add-on's classes.  A class body is the sequence of its assignments  *)
(* and method definitions in source order; Python keeps the last binding   *)
(* of a name.  A method is named by the line of its def.                   *)

Classes == <<
    [name |-> "MaterialCreatorProperties", base |-> "PropertyGroup", body |-> <<>>],
    [name |-> "MATERIAL_OT_select_input_file", base |-> "Operator", body |-> <<
        <<"bl_idname", "material.select_input_file">>,
        <<"execute", "select_input_file.execute">> >>],
    [name |-> "MATERIAL_OT_select_path_file", base |-> "Operator", body |-> <<
        <<"bl_idname", "material.select_path_file">>,
        <<"execute", "select_path_file.execute">> >>],
    [name |-> "MATERIAL_OT_create_materials", base |-> "Operator", body |-> <<
        <<"bl_idname", "material.create_from_files">>,
        <<"execute", "create_materials.execute">>,
        <<"create_materials_from_files", "create_materials_from_files">> >>],
    [name |-> "MATERIAL_OT_create_planes", base |-> "Operator", body |-> <<
        <<"bl_idname", "material.create_planes">>,
        <<"execute", "create_planes.execute">>,
        <<"create_material_planes", "create_material_planes">> >>],
    [name |-> "MATERIAL_OT_delete_material_planes", base |-> "Operator", body |-> <<
        <<"bl_idname", "material.delete_planes">>,
        <<"execute", "delete_planes.execute">>,
        <<"delete_existing_material_planes", "delete_existing_material_planes">>,
        <<"bl_idname", "material.create_from_files">>,
        <<"execute", "create_materials.execute">>,
        <<"create_materials_from_files", "create_materials_from_files">> >>],
    [name |-> "MATERIAL_PT_creator_panel", base |-> "Panel", body |-> <<
        <<"bl_idname", "MATERIAL_PT_creator">>,
        <<"draw", "creator_panel.draw">> >>]
>>

\* the value a class attribute has once the class body has run
ClassAttr(cls, attr) ==
    LET at == {i \in DOMAIN cls.body : cls.body[i][1] = attr}
    IN  IF at = {} THEN "none"
        ELSE cls.body[CHOOSE i \in at : \A j \in at : j <= i][2]

OperatorClasses == {i \in DOMAIN Classes : Classes[i].base = "Operator"}

ClassNamed(n) == Classes[CHOOSE i \in DOMAIN Classes : Classes[i].name = n]

\* the operator ids MATERIAL_PT_creator_panel.draw makes a button for
PanelButtons == {"material.select_input_file", "material.select_path_file",
                 "material.create_from_files", "material.create_planes",
                 "material.delete_planes"}

\* bpy.utils.register_class for one class: an operator registered under a
\* bl_idname that is already taken replaces the earlier registration
RegisterClass(reg, cls) ==
    IF cls.base # "Operator" THEN reg
    ELSE LET id == ClassAttr(cls, "bl_idname")
             Other(e) == e[1] # id
         IN  Append(SelectSeq(reg, Other), <<id, cls.name>>)

RECURSIVE RegisterAll(_, _)
RegisterAll(reg, k) ==
    IF k > Len(Classes) THEN reg ELSE RegisterAll(RegisterClass(reg, Classes[k]), k + 1)

\* the class the host runs for an operator id ("none": unknown operator)
Lookup(reg, id) ==
    IF \E i \in DOMAIN reg : reg[i][1] = id
    THEN reg[CHOOSE i \in DOMAIN reg : reg[i][1] = id][2]
    ELSE "none"

----------------------------------------------------------------------------
(* The disk *)

FileNames == {"names.txt", "paths.txt"}
\* the file the user picks in each of the two file browsers
InputChoices == {"names.txt"}
PathChoices == {"paths.txt"}

\* lines a material-names file is made of: blank, a name, a padded name
NameLines == { <<>>, <<"A">>, <<" ", "B">> }
\* lines a texture-paths file is made of: a path, a quoted path that is not
\* normalized, a pair of quotes, and a line of white space
PathLines == { <<"p">>, <<"'", ".", "/", "q", "'">>, <<"\"", "\"">>, <<" ">> }

SeqsUpTo(S, n) == UNION {[1..k -> S] : k \in 0..n}

FileStates(lines) ==
    {[status |-> "ok", lines |-> c] : c \in SeqsUpTo(lines, MaxLines)}
    \cup {[status |-> "missing", lines |-> <<>>], [status |-> "unreadable", lines |-> <<>>]}

\* texture files on disk; "." is the working directory
TextureFiles == { <<"p">> }
Directories == { <<".">> }

\* os.path.exists
exists(path) == path \in TextureFiles \/ path \in Directories

\* bpy.data.images.load raises for a path that is not a readable image file
loadable(path) == path \in TextureFiles

----------------------------------------------------------------------------
(* create_materials_from_files *)

\* lines 100-101: [line.strip() for line in f.readlines() if line.strip()]
RECURSIVE ParseNames(_)
ParseNames(lines) ==
    IF lines = <<>> THEN <<>>
    ELSE LET line == Strip(Head(lines), Whitespace)
         IN  IF line # <<>> THEN <<line>> \o ParseNames(Tail(lines))
             ELSE ParseNames(Tail(lines))

\* lines 110-116: strip, skip blanks, strip the quotation marks, append
RECURSIVE ParsePaths(_)
ParsePaths(lines) ==
    IF lines = <<>> THEN <<>>
    ELSE LET line == Strip(Head(lines), Whitespace)
         IN  IF line # <<>> THEN <<Strip(line, Quotes)>> \o ParsePaths(Tail(lines))
             ELSE ParsePaths(Tail(lines))

Min(a, b) == IF a <= b THEN a ELSE b

\* Truncate cutting one entry too many
TruncateShort(list, count) == SubSeq(list, 1, count - 1)

\* lines 129-134: both lists cut to the shorter length
Truncate(list, count) == SubSeq(list, 1, count)

MaterialNames(mats) == {mats[k].name : k \in DOMAIN mats}

\* lines 148-183: the new material with its five nodes and four links
FullNodes == <<"ShaderNodeOutputMaterial", "ShaderNodeBsdfPrincipled",
               "ShaderNodeTexCoord", "ShaderNodeMapping", "ShaderNodeTexImage">>
FullLinks == { <<"BsdfPrincipled.BSDF", "OutputMaterial.Surface">>,
               <<"TexCoord.UV", "Mapping.Vector">>,
               <<"Mapping.Vector", "TexImage.Vector">>,
               <<"TexImage.Color", "BsdfPrincipled.Base Color">> }
AlphaLink == <<"TexImage.Alpha", "BsdfPrincipled.Alpha">>

\* NewMaterial without line 152: the two nodes use_nodes = True makes stay
NewMaterialNoClear(mat_name) ==
    [name |-> mat_name, use_nodes |-> TRUE,
     nodes |-> <<"ShaderNodeBsdfPrincipled", "ShaderNodeOutputMaterial">> \o FullNodes,
     links |-> FullLinks, image |-> 0, interpolation |-> "default",
     base_color |-> "default", asset |-> FALSE]

NewMaterial(mat_name) ==
    [name |-> mat_name, use_nodes |-> TRUE, nodes |-> FullNodes, links |-> FullLinks,
     image |-> 0, interpolation |-> "default", base_color |-> "default",
     asset |-> FALSE]

\* FindImage comparing the filepath as stored, not normalized
FindImageRaw(imgs, normalized_path) ==
    LET hit == {k \in DOMAIN imgs :
                   imgs[k].filepath # <<>> /\ imgs[k].filepath = normalized_path}
    IN  IF hit = {} THEN 0 ELSE CHOOSE k \in hit : \A j \in hit : k <= j

\* lines 195-199: the first image whose normalized filepath is the path (0: none)
FindImage(imgs, normalized_path) ==
    LET hit == {k \in DOMAIN imgs :
                   imgs[k].filepath # <<>> /\ normpath(imgs[k].filepath) = normalized_path}
    IN  IF hit = {} THEN 0 ELSE CHOOSE k \in hit : \A j \in hit : k <= j

\* AssignImage loading whether or not the file is there: no placeholder
AssignImageLoadOnly(mat, imgs, normalized_path, found) ==
    IF found = 0 /\ ~loadable(normalized_path)
    THEN [mat |-> [mat EXCEPT !.base_color = "fallback"], images |-> imgs,
          raised |-> TRUE]
    ELSE [mat |-> [mat EXCEPT !.image = IF found # 0 THEN found ELSE Len(imgs) + 1,
                              !.interpolation = "Linear",
                              !.links = @ \cup {AlphaLink}],
          images |-> IF found # 0
                     THEN [imgs EXCEPT ![found].filepath = normalized_path]
                     ELSE Append(imgs, [name |-> basename(normalized_path),
                                        filepath |-> normalized_path,
                                        source |-> "FILE", kind |-> "loaded"]),
          raised |-> FALSE]

\* lines 202-236: the image is known (found: its index, or 0); load it or
\* make the placeholder, assign it, set its filepath, link the alpha
AssignImage(mat, imgs, normalized_path, found) ==
    IF found = 0 /\ exists(normalized_path) /\ ~loadable(normalized_path)
    THEN \* bpy.data.images.load raised: lines 238-242
         [mat |-> [mat EXCEPT !.base_color = "fallback"], images |-> imgs,
          raised |-> TRUE]
    ELSE LET imgs1 ==
                 IF found # 0 THEN imgs
                 ELSE Append(imgs, [name |-> basename(normalized_path),
                                    filepath |-> normalized_path, source |-> "FILE",
                                    kind |-> IF exists(normalized_path) THEN "loaded"
                                             ELSE "placeholder"])
             img == IF found # 0 THEN found ELSE Len(imgs) + 1
         IN  [mat |-> [mat EXCEPT !.image = img, !.interpolation = "Linear",
                                  !.links = @ \cup {AlphaLink}],
              images |-> [imgs1 EXCEPT ![img].filepath = normalized_path],
              raised |-> FALSE]

\* lines 188-199: the path is normalized and looked up among the images
LookupImage(mat, imgs, normalized_path) ==
    AssignImage(mat, imgs, normalized_path, FindImage(imgs, normalized_path))

\* lines 186-242: the texture setup of one material.  The result is the
\* material, the images, and whether the except branch ran.
TextureSetup(mat, imgs, texture_path) ==
    LookupImage(mat, imgs, normpath(texture_path))

\* line 247: created_materials.append(mat), after the material is in the host
Created(st, t, mat_name, texture_path, i) ==
    [materials |-> Append(st.materials, t.mat), images |-> t.images,
     created |-> Append(st.created,
         [mat |-> Len(st.materials) + 1, name |-> mat_name,
          texture_path |-> texture_path, pair |-> i, raised |-> t.raised])]

\* CreateOne without the test of line 143
CreateOneNoSkip(mat_name, texture_path, i, st) ==
    Created(st, TextureSetup(NewMaterial(mat_name), st.images, texture_path),
            mat_name, texture_path, i)

\* lines 143-247: one pair
CreateOne(mat_name, texture_path, i, st) ==
    IF mat_name \in MaterialNames(st.materials) THEN st
    ELSE Created(st, TextureSetup(NewMaterial(mat_name), st.images, texture_path),
                 mat_name, texture_path, i)

\* lines 139-247: the loop over the pairs, from pair i on.  st holds the
\* materials, the images and the list created_materials (as indexes into
\* the materials, with the pair each came from).
RECURSIVE CreateLoop(_, _, _, _)
CreateLoop(material_names, texture_paths, i, st) ==
    IF i > Min(Len(material_names), Len(texture_paths)) THEN st
    ELSE CreateLoop(material_names, texture_paths, i + 1,
                    CreateOne(material_names[i], texture_paths[i], i, st))

\* lines 255-269: asset_mark(), and bpy.ops.asset.mark when it raises
MarkAsset(mat, api) ==
    IF api = "asset_mark" THEN [mat EXCEPT !.asset = TRUE]
    ELSE IF api = "ops_only" THEN [mat EXCEPT !.asset = TRUE]
    ELSE mat

\* lines 250-269: the loop over created_materials
MarkAll(mats, created, api) ==
    [k \in DOMAIN mats |->
        IF \E c \in DOMAIN created : created[c].mat = k THEN MarkAsset(mats[k], api)
        ELSE mats[k]]

Failure(msg, opened) ==
    [success |-> FALSE, message |-> msg, count |-> 0, opened |-> opened,
     names |-> <<>>, paths |-> <<>>, created |-> <<>>]

\* lines 249-271: mark the created materials, return the count
Success(st, names, paths, opened, api) ==
    [success |-> TRUE, message |-> "", count |-> Len(st.created), opened |-> opened,
     names |-> names, paths |-> paths, created |-> st.created,
     materials |-> MarkAll(st.materials, st.created, api), images |-> st.images]

\* lines 129-139: the lists are cut to the shorter one and zipped
CreateTruncated(names, paths, opened, mats, imgs, api) ==
    Success(CreateLoop(names, paths, 1,
                       [materials |-> mats, images |-> imgs, created |-> <<>>]),
            names, paths, opened, api)

\* CreateFromLists without the two tests for an empty list
CreateFromListsUnchecked(material_names, texture_paths, opened, mats, imgs, api) ==
    CreateTruncated(
        Truncate(material_names, Min(Len(material_names), Len(texture_paths))),
        Truncate(texture_paths, Min(Len(material_names), Len(texture_paths))),
        opened, mats, imgs, api)

\* lines 122-134
CreateFromLists(material_names, texture_paths, opened, mats, imgs, api) ==
    IF material_names = <<>>
    THEN Failure("No material names found in input file", opened)
         @@ [materials |-> mats, images |-> imgs]
    ELSE IF texture_paths = <<>>
    THEN Failure("No texture paths found in path file", opened)
         @@ [materials |-> mats, images |-> imgs]
    ELSE CreateTruncated(
             Truncate(material_names, Min(Len(material_names), Len(texture_paths))),
             Truncate(texture_paths, Min(Len(material_names), Len(texture_paths))),
             opened, mats, imgs, api)

\* lines 100 and 109: open() of a name that is no file of the disk (the
\* empty name too) raises FileNotFoundError
OpenFile(disk, path) ==
    IF path \in DOMAIN disk THEN disk[path] ELSE [status |-> "missing", lines |-> <<>>]

\* lines 95-271
create_materials_from_files(input_file_path, path_file_path, disk, mats, imgs, api) ==
    IF OpenFile(disk, input_file_path).status = "missing"
    THEN Failure("Could not find input file", <<input_file_path>>)
         @@ [materials |-> mats, images |-> imgs]
    ELSE IF OpenFile(disk, input_file_path).status = "unreadable"
    THEN Failure("Error reading input file", <<input_file_path>>)
         @@ [materials |-> mats, images |-> imgs]
    ELSE IF OpenFile(disk, path_file_path).status = "missing"
    THEN Failure("Could not find path file", <<input_file_path, path_file_path>>)
         @@ [materials |-> mats, images |-> imgs]
    ELSE IF OpenFile(disk, path_file_path).status = "unreadable"
    THEN Failure("Error reading path file", <<input_file_path, path_file_path>>)
         @@ [materials |-> mats, images |-> imgs]
    ELSE CreateFromLists(ParseNames(OpenFile(disk, input_file_path).lines),
                         ParsePaths(OpenFile(disk, path_file_path).lines),
                         <<input_file_path, path_file_path>>, mats, imgs, api)

----------------------------------------------------------------------------
(* create_material_planes and delete_existing_material_planes *)

\* lines 309-310, in units of 0.5
plane_size == 4
spacing == 1
grid_spacing == plane_size + spacing

\* floor of the square root, by search
RECURSIVE FloorSqrt(_, _)
FloorSqrt(n, r) == IF (r + 1) * (r + 1) > n THEN r ELSE FloorSqrt(n, r + 1)

\* CeilSqrt with math.floor for math.ceil
CeilSqrtFloor(n) == FloorSqrt(n, 0)

\* line 314: math.ceil(math.sqrt(n)); the float square root of a count of
\* materials is exact on perfect squares and strictly between two integers
\* otherwise
CeilSqrt(n) ==
    LET r == FloorSqrt(n, 0) IN IF r * r = n THEN r ELSE r + 1

\* math.ceil(a / b) for positive integers
CeilDiv(a, b) == (a + b - 1) \div b

\* Plane with the first material put on every plane
PlaneFirstMaterial(mats, k, grid_width) ==
    [name |-> mats[k].name, data_name |-> <<"Plane_">> \o mats[k].name,
     location |-> <<((k - 1) % grid_width) * grid_spacing,
                    ((k - 1) \div grid_width) * grid_spacing, 0>>,
     materials |-> <<mats[1].name>>]

\* lines 319-344: the plane of material number i (from 0) of the enumeration
Plane(mats, k, grid_width) ==
    LET i == k - 1
        row == i \div grid_width
        col == i % grid_width
        x_pos == col * grid_spacing
        y_pos == row * grid_spacing
    IN  [name |-> mats[k].name, data_name |-> <<"Plane_">> \o mats[k].name,
         location |-> <<x_pos, y_pos, 0>>, materials |-> <<mats[k].name>>]

\* lines 316-353: one plane per material, and the message
PlanesInGrid(mats, objs, grid_width) ==
    [success |-> TRUE, message |-> "Successfully created planes",
     grid |-> <<grid_width, CeilDiv(Len(mats), grid_width)>>,
     objects |-> objs \o [k \in 1..Len(mats) |-> Plane(mats, k, grid_width)]]

\* lines 291-353
create_material_planes(mats, objs) ==
    IF mats = <<>>
    THEN [success |-> FALSE, message |-> "No materials found in the scene!",
          grid |-> <<0, 0>>, objects |-> objs]
    ELSE PlanesInGrid(mats, objs, CeilSqrt(Len(mats)))

\* lines 373-394
delete_existing_material_planes(mats, objs) ==
    LET IsPlane(obj) == obj.name \in MaterialNames(mats)
        Keep(obj) == ~IsPlane(obj)
    IN  IF \E k \in DOMAIN objs : IsPlane(objs[k])
        THEN [success |-> TRUE, message |-> "Deleted existing material planes",
              objects |-> SelectSeq(objs, Keep)]
        ELSE [success |-> FALSE, message |-> "No existing material planes found to delete",
              objects |-> objs]

----------------------------------------------------------------------------
(* State *)

Scene == [materials |-> materials, images |-> images, objects |-> objects]

\* what an operator invocation leaves behind: the button, the class the host
\* ran, the returned set, the report, the scene before it (for the operators
\* that work on the scene), and the locals of the run the properties speak about
Record(op, cls, result, message, before) ==
    [op |-> op, cls |-> cls, result |-> result, message |-> message, before |-> before,
     success |-> FALSE, count |-> 0, opened |-> <<>>, names |-> <<>>, paths |-> <<>>,
     created |-> <<>>, grid |-> <<0, 0>>]

NoScene == [materials |-> <<>>, images |-> <<>>, objects |-> <<>>]

\* a material made in the host's user interface: no node tree
DefaultMaterial(name) ==
    [name |-> name, use_nodes |-> FALSE, nodes |-> <<>>, links |-> {},
     image |-> 0, interpolation |-> "default", base_color |-> "default",
     asset |-> FALSE]

\* an image loaded from ./q when that file was still there
StaleImage == [name |-> <<"q">>, filepath |-> <<".", "/", "q">>,
               source |-> "FILE", kind |-> "loaded"]

\* an image made in the host, with no file behind it
GeneratedImage == [name |-> <<"R">>, filepath |-> <<>>,
                   source |-> "GENERATED", kind |-> "generated"]

Init ==
    /\ registry = <<>>
    /\ props = [input_file_path |-> "", path_file_path |-> ""]
    /\ fs \in {f \in [FileNames -> FileStates(NameLines) \cup FileStates(PathLines)] :
                 /\ f["names.txt"] \in FileStates(NameLines)
                 /\ f["paths.txt"] \in FileStates(PathLines)}
    /\ hostApi \in {"asset_mark", "ops_only", "none"}
    /\ materials \in {<<>>, <<DefaultMaterial(<<"A">>)>>}
    /\ images \in {<<>>, <<StaleImage>>, <<GeneratedImage, StaleImage>>}
    /\ objects = <<>>
    /\ last = Record("none", "none", "none", "", NoScene)

----------------------------------------------------------------------------
(* Operations *)

\* lines 669-673
register ==
    /\ registry = <<>>
    /\ registry' = RegisterAll(<<>>, 1)
    /\ last' = Record("register", "none", "none", "", NoScene)
    /\ UNCHANGED <<props, fs, hostApi, materials, images, objects>>

\* lines 50-52
select_input_file_execute(op, cls, filepath) ==
    /\ props' = [props EXCEPT !.input_file_path = filepath]
    /\ last' = Record(op, cls, "FINISHED", "", NoScene)
    /\ UNCHANGED <<registry, fs, hostApi, materials, images, objects>>

\* lines 64-66
select_path_file_execute(op, cls, filepath) ==
    /\ props' = [props EXCEPT !.path_file_path = filepath]
    /\ last' = Record(op, cls, "FINISHED", "", NoScene)
    /\ UNCHANGED <<registry, fs, hostApi, materials, images, objects>>

\* lines 88-93: the report and the returned set
ReportCreate(op, cls, result, before) ==
    /\ materials' = result.materials
    /\ images' = result.images
    /\ last' = [Record(op, cls, IF result.success THEN "FINISHED" ELSE "CANCELLED",
                       IF result.success
                       THEN "Successfully created materials and marked as assets"
                       ELSE result.message, before)
                EXCEPT !.success = result.success, !.count = result.count,
                       !.opened = result.opened, !.names = result.names,
                       !.paths = result.paths, !.created = result.created]
    /\ UNCHANGED <<registry, props, fs, hostApi, objects>>

\* create_materials_execute with "and" for the "or" of line 79
create_materials_execute_and(op, cls) ==
    IF props.input_file_path = "" /\ props.path_file_path = ""
    THEN /\ last' = Record(op, cls, "CANCELLED",
                           "Please select both input and path files", Scene)
         /\ UNCHANGED <<registry, props, fs, hostApi, materials, images, objects>>
    ELSE ReportCreate(op, cls,
             create_materials_from_files(props.input_file_path, props.path_file_path,
                                         fs, materials, images, hostApi),
             Scene)

\* lines 76-93 (and, the same text, lines 401-418)
create_materials_execute(op, cls) ==
    IF props.input_file_path = "" \/ props.path_file_path = ""
    THEN /\ last' = Record(op, cls, "CANCELLED",
                           "Please select both input and path files", Scene)
         /\ UNCHANGED <<registry, props, fs, hostApi, materials, images, objects>>
    ELSE ReportCreate(op, cls,
             create_materials_from_files(props.input_file_path, props.path_file_path,
                                         fs, materials, images, hostApi),
             Scene)

\* lines 284-289: the report and the returned set
ReportPlanes(op, cls, result, before) ==
    /\ objects' = result.objects
    /\ last' = [Record(op, cls, IF result.success THEN "FINISHED" ELSE "CANCELLED",
                       result.message, before)
                EXCEPT !.success = result.success, !.grid = result.grid,
                       !.count = Len(result.objects) - Len(before.objects)]
    /\ UNCHANGED <<registry, props, fs, hostApi, materials, images>>

\* lines 281-289
create_planes_execute(op, cls) ==
    /\ Len(objects) + Len(materials) <= MaxObjects
    /\ ReportPlanes(op, cls, create_material_planes(materials, objects), Scene)

\* lines 366-371: FINISHED on both branches
ReportDelete(op, cls, result, before) ==
    /\ objects' = result.objects
    /\ last' = [Record(op, cls, "FINISHED", result.message, before)
                EXCEPT !.success = result.success]
    /\ UNCHANGED <<registry, props, fs, hostApi, materials, images>>

\* lines 363-371
delete_planes_execute(op, cls) ==
    ReportDelete(op, cls, delete_existing_material_planes(materials, objects), Scene)

\* the host runs the execute the class ends up with
Dispatch(impl, op, cls, filepath) ==
        CASE impl = "select_input_file.execute" -> select_input_file_execute(op, cls, filepath)
          [] impl = "select_path_file.execute" -> select_path_file_execute(op, cls, filepath)
          [] impl = "create_materials.execute" -> create_materials_execute(op, cls)
          [] impl = "create_planes.execute" -> create_planes_execute(op, cls)
          [] impl = "delete_planes.execute" -> delete_planes_execute(op, cls)

Execute(op, cls, filepath) ==
    Dispatch(ClassAttr(ClassNamed(cls), "execute"), op, cls, filepath)

\* the class the host found for the operator id runs, or none does
Invoke(op, cls, filepath) ==
    IF cls = "none"
    THEN /\ last' = Record(op, "none", "UNKNOWN_OPERATOR", "", NoScene)
         /\ UNCHANGED <<registry, props, fs, hostApi, materials, images, objects>>
    ELSE Execute(op, cls, filepath)

\* A click on a panel button (lines 620-647): the host looks the operator id
\* up and runs the class registered under it.  The file browser of the two
\* select operators hands over the file the user picked.
PressSelectInputFile ==
    /\ registry # <<>>
    /\ \E filepath \in InputChoices :
           Invoke("material.select_input_file",
                  Lookup(registry, "material.select_input_file"), filepath)

PressSelectPathFile ==
    /\ registry # <<>>
    /\ \E filepath \in PathChoices :
           Invoke("material.select_path_file",
                  Lookup(registry, "material.select_path_file"), filepath)

PressCreateFromFiles ==
    /\ registry # <<>>
    /\ Invoke("material.create_from_files",
              Lookup(registry, "material.create_from_files"), "")

PressCreatePlanes ==
    /\ registry # <<>>
    /\ Invoke("material.create_planes", Lookup(registry, "material.create_planes"), "")

PressDeletePlanes ==
    /\ registry # <<>>
    /\ Invoke("material.delete_planes", Lookup(registry, "material.delete_planes"), "")

Next ==
    \/ register
    \/ PressSelectInputFile
    \/ PressSelectPathFile
    \/ PressCreateFromFiles
    \/ PressDeletePlanes

Spec == Init /\ [][Next]_vars

----------------------------------------------------------------------------
(* The plane layout, from scenes of up to MaxGridN materials.  The file     *)
(* buttons and Create Materials work on the materials and images and never *)
(* on the objects; Create Material Planes works on the objects and never   *)
(* on the materials and images; so the two groups are explored apart.      *)

GridName(i) == [j \in 1..i |-> "M"]

RECURSIVE GridMaterials(_, _)
GridMaterials(S, i) ==
    IF i > MaxGridN THEN <<>>
    ELSE (IF i \in S THEN <<DefaultMaterial(GridName(i))>> ELSE <<>>)
         \o GridMaterials(S, i + 1)

InitGrid ==
    /\ registry = RegisterAll(<<>>, 1)
    /\ props = [input_file_path |-> "", path_file_path |-> ""]
    /\ fs = [f \in FileNames |-> [status |-> "missing", lines |-> <<>>]]
    /\ hostApi = "asset_mark"
    /\ materials \in {GridMaterials(S, 1) : S \in SUBSET (1..MaxGridN)}
    /\ images = <<>>
    /\ objects = <<>>
    /\ last = Record("none", "none", "none", "", NoScene)

NextGrid ==
    \/ PressCreatePlanes
    \/ PressDeletePlanes

SpecGrid == InitGrid /\ [][NextGrid]_vars

----------------------------------------------------------------------------
(* Properties *)

\* the last invocation was Create Materials and got as far as the two files
RanCreate == last.op = "material.create_from_files" /\ Len(last.opened) >= 1
CreateSucceeded == last.op = "material.create_from_files" /\ last.success

\* the lines of the two files the last run was given
InputLines == fs[props.input_file_path].lines
PathFileLines == fs[props.path_file_path].lines

\* the indexes of the lines that are not blank, and the k-th of them
NonBlank(lines) == {i \in DOMAIN lines : Strip(lines[i], Whitespace) # <<>>}
LineOf(lines, k) ==
    CHOOSE i \in NonBlank(lines) : Cardinality({j \in NonBlank(lines) : j <= i}) = k
NthName(k) == Strip(InputLines[LineOf(InputLines, k)], Whitespace)
NthPath(k) == Strip(Strip(PathFileLines[LineOf(PathFileLines, k)], Whitespace), Quotes)
PairCount == Min(Cardinality(NonBlank(InputLines)), Cardinality(NonBlank(PathFileLines)))

\* the pairs of the run whose name is a duplicate
DuplicatePairs ==
    {k \in 1..PairCount :
        \/ NthName(k) \in MaterialNames(last.before.materials)
        \/ \E j \in 1..(k - 1) : NthName(j) = NthName(k)}

\* C1: a successful run returns, and adds to bpy.data.materials, as many
\* materials as min(non-blank names, non-blank paths) less the pairs whose name
\* is that of a material from before the run or of an earlier pair of the run.
C1_CountIsMinLessDuplicates ==
    CreateSucceeded =>
        /\ last.count = PairCount - Cardinality(DuplicatePairs)
        /\ Len(materials) = Len(last.before.materials) + last.count

C1_Witness ==
    /\ CreateSucceeded
    /\ last.count = 1
    /\ PairCount = 2
    /\ DuplicatePairs = {2}

\* C2: every material a run creates has its name and its texture path from
\* the same line of the two files, whatever the files hold, blank lines too.
C2_SameLineIndex ==
    CreateSucceeded =>
        \A c \in DOMAIN last.created :
            LineOf(InputLines, last.created[c].pair)
                = LineOf(PathFileLines, last.created[c].pair)

\* the bl_idname of the classes of the list that are operators
IdnameOf(i) == ClassAttr(Classes[i], "bl_idname")

\* C3: every operator id the panel draws a button for is the bl_idname of
\* exactly one registered class, and no two registered operator classes have
\* the same bl_idname.
C3_ButtonsHaveOneClass ==
    registry # <<>> =>
        /\ \A id \in PanelButtons :
               Cardinality({i \in OperatorClasses : IdnameOf(i) = id}) = 1
        /\ \A i, j \in OperatorClasses : IdnameOf(i) = IdnameOf(j) => i = j

\* C4: executing the class MATERIAL_OT_delete_material_planes returns
\* FINISHED, opens neither file, and leaves materials and images as they were.
C4_DeleteClassOnlyDeletes ==
    last.cls = "MATERIAL_OT_delete_material_planes" =>
        /\ last.result = "FINISHED"
        /\ last.opened = <<>>
        /\ materials = last.before.materials
        /\ images = last.before.images

\* C5: after a successful run every material the run created is marked as an
\* asset, whatever asset_mark and bpy.ops.asset.mark did.
C5_CreatedAreAssets ==
    CreateSucceeded =>
        \A c \in DOMAIN last.created : materials[last.created[c].mat].asset

\* the materials the host has that it did not have before the last run
NewMaterials == (Len(last.before.materials) + 1)..Len(materials)

\* C6: with different numbers of non-blank lines (both at least 1) the run
\* processes the first min(len(names), len(paths)) pairs in order and no
\* other, creates no material from a name or path past them, and succeeds.
C6_TruncatedToShorter ==
    (/\ RanCreate
     /\ Len(last.opened) = 2
     /\ fs[last.opened[1]].status = "ok" /\ fs[last.opened[2]].status = "ok"
     /\ Cardinality(NonBlank(InputLines)) >= 1
     /\ Cardinality(NonBlank(PathFileLines)) >= 1
     /\ Cardinality(NonBlank(InputLines)) # Cardinality(NonBlank(PathFileLines)))
    =>
        /\ last.success /\ last.result = "FINISHED"
        /\ last.names = [k \in 1..PairCount |-> NthName(k)]
        /\ last.paths = [k \in 1..PairCount |-> NthPath(k)]
        /\ \A k \in 1..PairCount :
               \/ NthName(k) \in MaterialNames(last.before.materials)
               \/ \E j \in 1..(k - 1) : NthName(j) = NthName(k)
               \/ \E c \in DOMAIN last.created : last.created[c].pair = k
        /\ \A c \in DOMAIN last.created :
               /\ last.created[c].pair \in 1..PairCount
               /\ last.created[c].name = NthName(last.created[c].pair)
               /\ last.created[c].texture_path = NthPath(last.created[c].pair)
               /\ \A d \in DOMAIN last.created :
                      c < d => last.created[c].pair < last.created[d].pair
        /\ \A m \in NewMaterials :
               \E c \in DOMAIN last.created :
                   /\ last.created[c].mat = m
                   /\ materials[m].name = last.created[c].name

C6_Witness ==
    /\ CreateSucceeded
    /\ Cardinality(NonBlank(InputLines)) = 2
    /\ Cardinality(NonBlank(PathFileLines)) = 1
    /\ last.count = 1
    /\ NthName(2) \notin MaterialNames(materials)

\* one of the two files is missing or unreadable, or has no non-blank line
FileTrouble ==
    \/ fs[props.input_file_path].status # "ok"
    \/ fs[props.path_file_path].status # "ok"
    \/ NonBlank(InputLines) = {}
    \/ NonBlank(PathFileLines) = {}

\* C7: with a file missing, unreadable or without a non-blank line the run
\* returns success=False with a message, the operator returns CANCELLED, and
\* no material and no image was created or changed.
C7_FileTroubleCancels ==
    (RanCreate /\ FileTrouble) =>
        /\ ~last.success
        /\ last.message # ""
        /\ last.result = "CANCELLED"
        /\ materials = last.before.materials
        /\ images = last.before.images

C7_Witness ==
    /\ RanCreate
    /\ fs[props.input_file_path].status = "ok"
    /\ NonBlank(InputLines) # {}
    /\ fs[props.path_file_path].status = "ok"
    /\ PathFileLines # <<>>
    /\ NonBlank(PathFileLines) = {}
    /\ last.result = "CANCELLED"
    /\ materials # <<>>

\* the planes of the last Create Material Planes, in the order made
PlanesSucceeded == last.op = "material.create_planes" /\ last.success
PlaneCount == Len(last.before.materials)
NewPlane(i) == objects[Len(last.before.objects) + i + 1]
ColumnOf(i) == NewPlane(i).location[1] \div grid_spacing
RowOf(i) == NewPlane(i).location[2] \div grid_spacing

\* C8: for n >= 1 materials the grid has the least w with w*w >= n columns,
\* plane i is in column i mod w and row i div w, columns are below w, rows
\* below ceil(n/w) <= w, and no two planes of a run share a position.
C8_GridLayout ==
    PlanesSucceeded =>
        LET n == PlaneCount
            w == last.grid[1]
        IN  /\ n >= 1
            /\ w * w >= n /\ (w - 1) * (w - 1) < n
            /\ last.grid[2] * w >= n /\ (last.grid[2] - 1) * w < n
            /\ last.grid[2] <= w
            /\ \A i \in 0..(n - 1) :
                   /\ NewPlane(i).location[1] = (i % w) * grid_spacing
                   /\ NewPlane(i).location[2] = (i \div w) * grid_spacing
                   /\ ColumnOf(i) < w
                   /\ RowOf(i) < last.grid[2]
            /\ \A i, j \in 0..(n - 1) :
                   NewPlane(i).location = NewPlane(j).location => i = j

C8_Witness ==
    /\ PlanesSucceeded
    /\ PlaneCount = 7
    /\ last.grid = <<3, 3>>
    /\ NewPlane(6).location = <<0, 2 * grid_spacing, 0>>

\* the image the texture node of a created material holds
ImageOf(c) == images[materials[last.created[c].mat].image]
TextureMissing(c) == ~exists(normpath(last.created[c].texture_path))
HasFullGraph(m) ==
    /\ materials[m].nodes = FullNodes
    /\ FullLinks \subseteq materials[m].links

\* the image from before the run, if any, that the lookup of lines 195-199
\* finds for the texture path of a created material (0: none)
ImageBefore(c) == FindImage(last.before.images, normpath(last.created[c].texture_path))

\* C9 as first stated: a pair whose texture file is not on disk still gives a
\* counted material with the full node graph whose texture node holds a
\* placeholder image with the normalized path as filepath; and when the
\* texture setup raises, the material is there, counted, with the fallback
\* colour.
C9_Original ==
    CreateSucceeded =>
        /\ last.count = Len(last.created)
        /\ \A c \in DOMAIN last.created :
               /\ last.created[c].mat \in NewMaterials
               /\ materials[last.created[c].mat].name = last.created[c].name
               /\ TextureMissing(c) =>
                      /\ ~last.created[c].raised
                      /\ HasFullGraph(last.created[c].mat)
                      /\ materials[last.created[c].mat].image # 0
                      /\ ImageOf(c).kind = "placeholder"
                      /\ ImageOf(c).filepath = normpath(last.created[c].texture_path)
               /\ last.created[c].raised =>
                      materials[last.created[c].mat].base_color = "fallback"

\* C9, amended: the texture node holds the image bpy.data.images already had
\* under that normalized filepath if there was one, and otherwise a new
\* placeholder image; either way its filepath is the normalized path.
C9_MissingTextureStillCreates ==
    CreateSucceeded =>
        /\ last.count = Len(last.created)
        /\ \A c \in DOMAIN last.created :
               /\ last.created[c].mat \in NewMaterials
               /\ materials[last.created[c].mat].name = last.created[c].name
               /\ TextureMissing(c) =>
                      /\ ~last.created[c].raised
                      /\ HasFullGraph(last.created[c].mat)
                      /\ materials[last.created[c].mat].image # 0
                      /\ ImageOf(c).filepath = normpath(last.created[c].texture_path)
                      /\ IF ImageBefore(c) # 0
                         THEN materials[last.created[c].mat].image = ImageBefore(c)
                         ELSE /\ ImageOf(c).kind = "placeholder"
                              /\ materials[last.created[c].mat].image
                                     > Len(last.before.images)
               /\ last.created[c].raised =>
                      materials[last.created[c].mat].base_color = "fallback"

C9_Witness ==
    /\ CreateSucceeded
    /\ last.count = 2
    /\ TextureMissing(1) /\ ~last.created[1].raised
    /\ ImageOf(1).kind = "placeholder"
    /\ ImageOf(1).filepath = <<"q">>
    /\ last.created[2].raised
    /\ materials[last.created[2].mat].base_color = "fallback"

\* C10: Create Material Planes makes one plane per material of the host, each
\* with that material alone in its slots; without materials it fails, the
\* operator returns CANCELLED, and no object is made.
C10_OnePlanePerMaterial ==
    last.op = "material.create_planes" =>
        IF last.before.materials = <<>>
        THEN /\ ~last.success
             /\ last.result = "CANCELLED"
             /\ objects = last.before.objects
        ELSE /\ last.success
             /\ Len(objects) = Len(last.before.objects) + PlaneCount
             /\ SubSeq(objects, 1, Len(last.before.objects)) = last.before.objects
             /\ \A i \in 0..(PlaneCount - 1) :
                    NewPlane(i).materials = <<last.before.materials[i + 1].name>>
             /\ \A k \in DOMAIN last.before.materials :
                    Cardinality({i \in 0..(PlaneCount - 1) :
                        last.before.materials[k].name
                            \in {NewPlane(i).materials[s] :
                                    s \in DOMAIN NewPlane(i).materials}}) = 1

C10_Witness ==
    /\ last.op = "material.create_planes"
    /\ last.success
    /\ PlaneCount = 3
    /\ Len(last.before.objects) = 3
    /\ Len(objects) = 6

\* C11: with the names-file path or the paths-file path empty, Create
\* Materials reports the error and returns CANCELLED; it opens no file and
\* leaves the scene as it was.
C11_EmptyPathCancels ==
    (/\ last.op = "material.create_from_files"
     /\ (props.input_file_path = "" \/ props.path_file_path = ""))
    =>
        /\ last.result = "CANCELLED"
        /\ ~last.success
        /\ last.message = "Please select both input and path files"
        /\ last.opened = <<>>
        /\ Scene = last.before

C11_Witness ==
    /\ last.op = "material.create_from_files"
    /\ props.input_file_path # ""
    /\ props.path_file_path = ""
    /\ fs[props.input_file_path].status = "ok"
    /\ NonBlank(fs[props.input_file_path].lines) # {}
    /\ last.result = "CANCELLED"
    /\ materials # <<>>

\* C12: every entry of the texture-path list parsed from the paths file is a
\* non-empty string without white space or a quote character at either end.
C12_PathsAreClean ==
    CreateSucceeded =>
        \A k \in DOMAIN last.paths :
            /\ last.paths[k] # <<>>
            /\ Head(last.paths[k]) \notin Whitespace \cup Quotes
            /\ last.paths[k][Len(last.paths[k])] \notin Whitespace \cup Quotes

\* the materials create_materials_from_files made, in this run or an earlier
CreatedMaterials == {m \in DOMAIN materials : materials[m].use_nodes}

NodeTypes(m) == {materials[m].nodes[k] : k \in DOMAIN materials[m].nodes}

\* C13: every created material, whichever way its texture setup went, has
\* exactly five nodes (output, principled BSDF, texture coordinate, mapping,
\* image texture) and the four links BSDF->Surface, UV->Mapping.Vector,
\* Mapping.Vector->Image.Vector, Image.Color->Base Color; the one link it may
\* have besides is Image.Alpha->BSDF.Alpha.
C13_FiveNodesFourLinks ==
    \A m \in CreatedMaterials :
        /\ Len(materials[m].nodes) = 5
        /\ NodeTypes(m) = {"ShaderNodeOutputMaterial", "ShaderNodeBsdfPrincipled",
                           "ShaderNodeTexCoord", "ShaderNodeMapping",
                           "ShaderNodeTexImage"}
        /\ {<<"BsdfPrincipled.BSDF", "OutputMaterial.Surface">>,
            <<"TexCoord.UV", "Mapping.Vector">>,
            <<"Mapping.Vector", "TexImage.Vector">>,
            <<"TexImage.Color", "BsdfPrincipled.Base Color">>}
               \subseteq materials[m].links
        /\ Cardinality(materials[m].links) \in {4, 5}
        /\ Cardinality(materials[m].links) = 5 =>
               <<"TexImage.Alpha", "BsdfPrincipled.Alpha">> \in materials[m].links

C13_Witness ==
    /\ CreateSucceeded
    /\ last.count = 2
    /\ last.created[1].raised
    /\ Cardinality(materials[last.created[1].mat].links) = 4
    /\ ~last.created[2].raised
    /\ ImageOf(2).kind = "placeholder"
    /\ Cardinality(materials[last.created[2].mat].links) = 5

\* C14: Create Materials run again on the same two files, right after a
\* successful run, succeeds with count 0, creates no material and leaves
\* the materials as they are.
C14_SecondRunCreatesNothing ==
    [][(/\ CreateSucceeded
        /\ last'.op = "material.create_from_files"
        /\ fs' = fs /\ props' = props)
       => (/\ last'.success
           /\ last'.result = "FINISHED"
           /\ last'.count = 0
           /\ last'.created = <<>>
           /\ materials' = materials)]_vars

C14_Witness ==
    /\ CreateSucceeded
    /\ last.count = 0
    /\ PairCount = 2
    /\ Cardinality(CreatedMaterials) = 2
    /\ last.before.materials = materials
    /\ \A k \in 1..PairCount : NthName(k) \in MaterialNames(materials)

\* the image a material's texture node holds (0: none)
ImageIndex(m) == materials[m].image

\* C15: from a scene where no two images have the same normalized filepath,
\* after any runs of Create Materials no two images of bpy.data.images have
\* the same normalized filepath, and created materials whose pairs have the
\* same normalized texture path hold the same image.
C15_OneImagePerPath ==
    /\ \A i, j \in DOMAIN images :
           normpath(images[i].filepath) = normpath(images[j].filepath) => i = j
    /\ CreateSucceeded =>
           \A c, d \in DOMAIN last.created :
               normpath(last.created[c].texture_path)
                   = normpath(last.created[d].texture_path)
               => ImageIndex(last.created[c].mat) = ImageIndex(last.created[d].mat)
    /\ CreateSucceeded =>
           \A c \in DOMAIN last.created : \A m \in CreatedMaterials :
               (/\ ImageIndex(m) # 0
                /\ ImageIndex(last.created[c].mat) # 0
                /\ normpath(images[ImageIndex(m)].filepath)
                       = normpath(last.created[c].texture_path))
               => ImageIndex(m) = ImageIndex(last.created[c].mat)

C15_Witness ==
    /\ CreateSucceeded
    /\ last.count = 2
    /\ last.before.images = <<GeneratedImage, StaleImage>>
    /\ Len(images) = 2
    /\ ImageIndex(last.created[1].mat) = 2
    /\ ImageIndex(last.created[2].mat) = 2
    /\ images[2].filepath = <<"q">>

====
